---- MODULE Spec2Model ----
(***************************************************************************)
(* Controller execution pipeline of @literallyjoel/router.                 *)
(*                                                                         *)
(* A route-table handler (router.ts, parseRoutes) resolves a router-level  *)
(* session, constructs one controller per request and calls invoke();      *)
(* invoke() runs init() (the four validation stages) and respond().        *)
(* Every await of the source is a step boundary of the model.              *)
(*                                                                         *)
(* JavaScript values are records tagged by "kind", so that `undefined`,    *)
(* `null`, objects, arrays and strings can be compared with each other.    *)
(***************************************************************************)
EXTENDS Integers, Sequences, FiniteSets, TLC

VARIABLES
    router,     \* getRoutes: its position, what it scanned and what it returned
    config,     \* what createController / getRoutes were given (set once)
    request,    \* request[r]: the incoming request of invocation r
    pc,         \* pc[r]: where invocation r stands
    ctl,        \* ctl[r]: the controller instance of invocation r
    io,         \* io[r]: the collaborators' calls and results of invocation r
    thrown,     \* thrown[r]: the exception travelling to the handler's catch
    response    \* response[r]: what the handler returned to the server

vars == <<router, config, request, pc, ctl, io, thrown, response>>

----------------------------------------------------------------------------
(* Bounds of the model *)

\* longest list of issues a schema validator reports in one call
MaxIssues == 2
\* longest issue path
MaxPath == 2
\* longest list of field errors the extra validator returns
MaxExtra == 2

----------------------------------------------------------------------------
(* JavaScript values *)

Undefined == [kind |-> "undefined"]
Null == [kind |-> "null"]
Arr(items) == [kind |-> "array", items |-> items]

\* JavaScript truthiness of the values the pipeline tests with `!x` / `if (x)`
Truthy(v) ==
    CASE v.kind = "undefined" -> FALSE
      [] v.kind = "null" -> FALSE
      [] v.kind = "string" -> v.chars # <<>>
      [] OTHER -> TRUE

\* a ?? b
Coalesce(a, b) == IF a.kind \in {"undefined", "null"} THEN b ELSE a

\* JSON.stringify(v): the JSON text of v, kept as the value it encodes
JSONstringify(v) == [kind |-> "string", json |-> v]

----------------------------------------------------------------------------
(* errors/GenericErrors.ts, errors/ResponseError.ts *)

NotFoundCode == 404
UnauthorizedCode == 401
ForbiddenCode == 403
ConflictCode == 409
ValidationCode == 400
InternalServerErrorCode == 500
OkCode == 200

NoOverrides == [message |-> Undefined, fieldErrors |-> Undefined]

\* new ResponseError({message, responseCode, data, fieldErrors, internalError})
ResponseError(name, message, responseCode, data, fieldErrors, internalError) ==
    [kind |-> "ResponseError", name |-> name, message |-> message,
     responseCode |-> responseCode, data |-> data,
     fieldErrors |-> fieldErrors, internalError |-> internalError]

\* overrides?.field of a Partial<ResponseErrorConfig>
Override(overrides, field) ==
    IF field \in DOMAIN overrides THEN overrides[field] ELSE Undefined

\* the class makeErrorClass(name, defaults) returns, applied to overrides
makeErrorClass(name, defaultMessage, defaultCode, overrides) ==
    ResponseError(name,
                  IF Override(overrides, "message") = Undefined THEN defaultMessage
                  ELSE overrides.message.text,
                  IF "responseCode" \in DOMAIN overrides THEN overrides.responseCode
                  ELSE defaultCode,
                  Coalesce(Override(overrides, "data"), Undefined),
                  Override(overrides, "fieldErrors"),
                  Override(overrides, "internalError"))

Msg(text) == [kind |-> "text", text |-> text]

NotFoundError(overrides) ==
    makeErrorClass("NotFoundError", "Not Found", NotFoundCode, overrides)
UnauthorizedError(overrides) ==
    makeErrorClass("UnauthorizedError", "Unauthorized", UnauthorizedCode, overrides)
ConflictError(overrides) ==
    makeErrorClass("ConflictError", "Conflict", ConflictCode, overrides)
ForbiddenError(overrides) ==
    makeErrorClass("ForbiddenError", "Forbidden", ForbiddenCode, overrides)
ValidationError(overrides) ==
    makeErrorClass("ValidationError", "Bad Request", ValidationCode, overrides)
InternalServerError(overrides) ==
    makeErrorClass("InternalServerError", "Internal Server Error",
                   InternalServerErrorCode, overrides)

\* Response.json(body, {status})
ResponseJson(body, status) == [kind |-> "Response", status |-> status, body |-> body]

\* mutant of toResponse: the field errors are put into the body as the array
toResponseFieldsAsArray(e) ==
    ResponseJson([message |-> e.message,
                  data |-> IF Truthy(e.data) THEN JSONstringify(e.data) ELSE Undefined,
                  fields |-> IF Truthy(e.fieldErrors) THEN e.fieldErrors ELSE Undefined],
                 e.responseCode)

\* ResponseError.toResponse()
toResponse(e) ==
    ResponseJson([message |-> e.message,
                  data |-> IF Truthy(e.data) THEN JSONstringify(e.data) ELSE Undefined,
                  fields |-> IF Truthy(e.fieldErrors) THEN JSONstringify(e.fieldErrors)
                             ELSE Undefined],
                 e.responseCode)

\* an exception that is not a ResponseError
PlainError(message) == [kind |-> "Error", message |-> message]

----------------------------------------------------------------------------
(* validation.ts *)

HexDigits ==
    {"0", "1", "2", "3", "4", "5", "6", "7", "8", "9",
     "a", "b", "c", "d", "e", "f", "A", "B", "C", "D", "E", "F"}

\* /^[0-9a-fA-F]{8}-[0-9a-fA-F]{4}-[1-5][0-9a-fA-F]{3}-[89abAB][0-9a-fA-F]{3}-[0-9a-fA-F]{12}$/
validateUUID(uuid) ==
    /\ Len(uuid.chars) = 36
    /\ \A i \in 1..36 :
        LET ch == uuid.chars[i] IN
        CASE i \in {9, 14, 19, 24} -> ch = "-"
          [] i = 15 -> ch \in {"1", "2", "3", "4", "5"}
          [] i = 20 -> ch \in {"8", "9", "a", "b", "A", "B"}
          [] OTHER -> ch \in HexDigits

\* a path segment is a property key (a string or a number) or a {key} object
KeySeg(k) == [kind |-> "key", name |-> k]
NumSeg(n) == [kind |-> "index", index |-> n]
ObjSeg(key) == [kind |-> "segment", key |-> key]

\* the callback of path.map in formatPath
formatSegment(seg) ==
    LET key == IF seg.kind = "segment" THEN seg.key ELSE seg
    IN  IF key.kind = "index" THEN "[" \o ToString(key.index) \o "]" ELSE key.name

RECURSIVE join(_, _)
\* Array.prototype.join over strings
join(strs, sep) ==
    IF strs = <<>> THEN ""
    ELSE IF Len(strs) = 1 THEN strs[1]
    ELSE strs[1] \o sep \o join(Tail(strs), sep)

formatPath(path) ==
    IF ~Truthy(path) \/ Len(path.items) = 0 THEN ""
    ELSE join([i \in 1..Len(path.items) |-> formatSegment(path.items[i])], ".")

\* mutant of mapIssues: only the first issue is mapped
mapIssuesFirstOnly(issues) ==
    [i \in 1..(IF Len(issues) > 0 THEN 1 ELSE 0) |->
        [field |-> formatPath(issues[i].path),
         message |-> IF issues[i].message = Undefined THEN "Invalid"
                     ELSE issues[i].message.text]]

mapIssues(issues) ==
    [i \in 1..Len(issues) |->
        [field |-> formatPath(issues[i].path),
         message |-> IF issues[i].message = Undefined THEN "Invalid"
                     ELSE issues[i].message.text]]

\* mutant of conformsStandardSchema: the adapter's version is not looked at
conformsStandardSchemaIgnoresVersion(schema) ==
    LET props == schema.standard
    IN  Truthy(props) /\ props.validate = "function"

\* the capability probe of parseStandardSchema: props present, version 1,
\* validate a function
conformsStandardSchema(schema) ==
    LET props == schema.standard
    IN  ~(\/ ~Truthy(props)
          \/ props.version # 1
          \/ props.validate # "function")

\* parseStandardSchema, up to the call of props.validate: the error it throws,
\* or Undefined when it goes on to call the validator
parseStandardSchemaProbe(schema) ==
    IF ~conformsStandardSchema(schema)
    THEN ValidationError([message |-> Msg("Schema does not implement StandardSchemaV1"),
                          fieldErrors |-> Undefined])
    ELSE Undefined

Return(value) == [kind |-> "resolved", value |-> value]
Throw(error) == [kind |-> "rejected", error |-> error]

\* mutant of parseStandardSchemaResult: the raw input is returned on success
parseStandardSchemaResultRawInput(input, resolved) ==
    IF Truthy(resolved.issues)
    THEN Throw(ValidationError([message |-> Undefined,
                                fieldErrors |-> Arr(mapIssues(resolved.issues.items))]))
    ELSE Return(input)

\* parseStandardSchema(input, schema), from the validator's resolved result on
parseStandardSchemaResult(input, resolved) ==
    IF Truthy(resolved.issues)
    THEN Throw(ValidationError([message |-> Undefined,
                                fieldErrors |-> Arr(mapIssues(resolved.issues.items))]))
    ELSE Return(resolved.value)

----------------------------------------------------------------------------
(* controller.ts: BaseController *)

ParamKeys == {"id", "org"}

\* an object keyed by parameter name; Undefined stands for a key that is not set
EmptyParams == [kind |-> "object", map |-> [k \in ParamKeys |-> Undefined]]

\* the BaseController constructor, as the class of createController calls it
Controller(req, ctx, cfg) ==
    [request |-> req,
     ctx |-> ctx,
     requiresAuthentication |-> cfg.requiresAuthentication,
     inputSchema |-> cfg.validationSchema,
     validateUUIDs |-> cfg.validateUUIDs,
     authProvider |-> cfg.authProvider,
     json |-> Undefined,
     session |-> Undefined,
     params |-> Undefined,
     responseError |-> Undefined]

\* get user(): this.session?.user
user(c) == IF c.session.kind \in {"undefined", "null"} THEN Undefined ELSE c.session.user

RECURSIVE validateUUIDsLoopPartial(_, _, _)
\* mutant of validateUUIDsLoop: a failing key leaves the keys validated before it
validateUUIDsLoopPartial(c, keys, validatedParams) ==
    IF keys = <<>>
    THEN [c EXCEPT !.params = [kind |-> "object", map |-> validatedParams]]
    ELSE LET key == Head(keys)
             raw == c.request.params.map[key]
         IN  IF ~Truthy(raw) \/ ~validateUUID(raw)
             THEN [c EXCEPT !.responseError = NotFoundError(NoOverrides),
                            !.params = [kind |-> "object", map |-> validatedParams]]
             ELSE validateUUIDsLoopPartial(c, Tail(keys),
                                           [validatedParams EXCEPT ![key] = raw])

RECURSIVE validateUUIDsLoop(_, _, _)
\* the for loop of _validateUUIDs over the keys still to check
validateUUIDsLoop(c, keys, validatedParams) ==
    IF keys = <<>>
    THEN [c EXCEPT !.params = [kind |-> "object", map |-> validatedParams]]
    ELSE LET key == Head(keys)
             raw == c.request.params.map[key]
         IN  IF ~Truthy(raw)
             THEN [c EXCEPT !.responseError = NotFoundError(NoOverrides),
                            !.params = EmptyParams]
             ELSE IF ~validateUUID(raw)
             THEN [c EXCEPT !.responseError = NotFoundError(NoOverrides),
                            !.params = EmptyParams]
             ELSE validateUUIDsLoop(c, Tail(keys),
                                    [validatedParams EXCEPT ![key] = raw])

_validateUUIDs(c) ==
    IF ~Truthy(c.validateUUIDs) THEN [c EXCEPT !.params = EmptyParams]
    ELSE IF ~Truthy(c.request.params) THEN [c EXCEPT !.params = EmptyParams]
    ELSE validateUUIDsLoop(c, c.validateUUIDs.items, EmptyParams.map)

\* mutant of checkAuthStatusNoProvider: the missing provider is not an error
checkAuthStatusNoProviderAllowed(c) == c

\* _checkAuthStatus when no provider is configured (lines 170-177)
checkAuthStatusNoProvider(c) ==
    IF c.requiresAuthentication
    THEN [c EXCEPT !.responseError =
            UnauthorizedError([message |-> Msg("Authentication provider not configured"),
                               fieldErrors |-> Undefined])]
    ELSE c

\* mutant of checkAuthStatusResolved: the session is attached before the check
checkAuthStatusResolvedAttachesFirst(c, session) ==
    LET attached == [c EXCEPT !.ctx = [session |-> session], !.session = session]
    IN  IF c.requiresAuthentication /\ ~Truthy(session)
        THEN [attached EXCEPT !.responseError =
                UnauthorizedError([message |-> Msg("You must be logged in to view this content"),
                                   fieldErrors |-> Undefined])]
        ELSE attached

\* mutant of checkAuthStatusResolved: a session is required of every handler
checkAuthStatusResolvedAlwaysRequired(c, session) ==
    IF ~Truthy(session)
    THEN [c EXCEPT !.responseError =
            UnauthorizedError([message |-> Msg("You must be logged in to view this content"),
                               fieldErrors |-> Undefined])]
    ELSE [c EXCEPT !.ctx = [session |-> session], !.session = session]

\* _checkAuthStatus once getSession has resolved (lines 181-191)
checkAuthStatusResolved(c, session) ==
    IF c.requiresAuthentication /\ ~Truthy(session)
    THEN [c EXCEPT !.responseError =
            UnauthorizedError([message |-> Msg("You must be logged in to view this content"),
                               fieldErrors |-> Undefined])]
    ELSE [c EXCEPT !.ctx = [session |-> session], !.session = session]

\* the guard of _validateJSONInput (line 138)
validateJSONInputSkips(c) == ~Truthy(c.inputSchema) \/ Truthy(c.responseError)

\* mutant of validateJSONInputParseFailed: the parse failure is swallowed
validateJSONInputParseFailedSwallowed(c) == c

\* the catch of request.json() (lines 143-148)
validateJSONInputParseFailed(c) ==
    [c EXCEPT !.responseError =
        ValidationError([message |-> Msg("Invalid JSON body provided"),
                         fieldErrors |-> Undefined])]

\* mutant of validateJSONInputSettled: an error that is no ResponseError is
\* thrown on as an internal error
validateJSONInputSettledInternal(c, settled) ==
    IF settled.kind = "resolved" THEN [c EXCEPT !.json = settled.value]
    ELSE IF settled.error.kind = "ResponseError"
    THEN [c EXCEPT !.responseError = settled.error]
    ELSE [c EXCEPT !.responseError = InternalServerError(NoOverrides)]

\* the try/catch around parseStandardSchema (lines 150-164), given how it settled
validateJSONInputSettled(c, settled) ==
    IF settled.kind = "resolved" THEN [c EXCEPT !.json = settled.value]
    ELSE IF settled.error.kind = "ResponseError"
    THEN [c EXCEPT !.responseError = settled.error]
    ELSE [c EXCEPT !.responseError =
            ValidationError([message |-> Msg("Invalid input"), fieldErrors |-> Undefined])]

\* mutant of additionalValidationSkips: the extra validator is always called
additionalValidationNeverSkips(c) == FALSE

\* the guard of _additionalValidation (line 119)
additionalValidationSkips(c) == c.json = Undefined

\* mutant of additionalValidationSettled: the extra validator's field errors
\* are dropped unless an error is already pending
additionalValidationSettledOnlyAppends(c, additionalErrors) ==
    IF c.responseError = Undefined THEN c
    ELSE [c EXCEPT !.responseError.fieldErrors =
            Arr(Coalesce(c.responseError.fieldErrors, Arr(<<>>)).items
                \o additionalErrors.items)]

\* _additionalValidation once the extra validator has returned (lines 121-134);
\* baseFieldErrors was read before the call, from the same controller
additionalValidationSettled(c, additionalErrors) ==
    LET baseFieldErrors ==
            IF c.responseError = Undefined THEN Arr(<<>>)
            ELSE Coalesce(c.responseError.fieldErrors, Arr(<<>>))
        fieldErrors ==
            IF Truthy(additionalErrors) /\ Len(additionalErrors.items) > 0
            THEN Arr(baseFieldErrors.items \o additionalErrors.items)
            ELSE baseFieldErrors
    IN  IF Len(fieldErrors.items) > 0
        THEN LET responseError == Coalesce(c.responseError, ValidationError(NoOverrides))
             IN  [c EXCEPT !.responseError =
                    [responseError EXCEPT !.fieldErrors = fieldErrors]]
        ELSE c

\* failWith(error), called by user logic
failWith(c, error) == [c EXCEPT !.responseError = error]

\* mutant of respondPending: respond() does not look at the pending error
respondPendingIgnored(c) == Undefined

\* respond(), before run: the error it renders, or Undefined when it calls run
respondPending(c) == c.responseError

\* respond(), after run returned resp (lines 104-107)
respondAfterRun(c, resp) ==
    IF Truthy(c.responseError) THEN toResponse(c.responseError) ELSE resp

----------------------------------------------------------------------------
(* The inputs: configurations, requests and what the collaborators answer *)

Chars(str) == [kind |-> "string", chars |-> str]

\* "123e4567-e89b-42d3-a456-426614174000": a version 4 UUID
UUIDv4 ==
    Chars(<<"1","2","3","e","4","5","6","7","-","e","8","9","b","-",
            "4","2","d","3","-","a","4","5","6","-",
            "4","2","6","6","1","4","1","7","4","0","0","0">>)
\* "018f3b6c-7a10-7cc3-98c4-dc0c0c07398f": a version 7 UUID
UUIDv7 ==
    Chars(<<"0","1","8","f","3","b","6","c","-","7","a","1","0","-",
            "7","c","c","3","-","9","8","c","4","-",
            "d","c","0","c","0","c","0","7","3","9","8","f">>)
\* "not-a-uuid"
NotAUUID == Chars(<<"n","o","t","-","a","-","u","u","i","d">>)
EmptyString == Chars(<<>>)

ParamValues == {Undefined, UUIDv4, UUIDv7, NotAUUID, EmptyString}

\* request.params: no map at all, or a map from parameter names to values
RequestParams ==
    {Undefined} \cup {[kind |-> "object", map |-> m] : m \in [ParamKeys -> ParamValues]}

Headers == [kind |-> "Headers"]

Requests == [params : RequestParams, headers : {Headers}]

\* the keys a handler declares for UUID validation
DeclaredKeys(cfg) ==
    IF cfg.validateUUIDs = Undefined THEN {}
    ELSE {cfg.validateUUIDs.items[i] : i \in 1..Len(cfg.validateUUIDs.items)}

\* the requests sent to a handler: a declared parameter takes every value, an
\* undeclared one is absent, a UUID or (the second key) no UUID
RequestsTo(cfg) ==
    {q \in Requests :
        q.params # Undefined =>
            /\ "org" \notin DeclaredKeys(cfg) =>
                    q.params.map["org"] \in {Undefined, UUIDv4}
            /\ "org" \in DeclaredKeys(cfg) =>
                    q.params.map["org"] \in {Undefined, UUIDv4, NotAUUID}
            /\ "id" \notin DeclaredKeys(cfg) => q.params.map["id"] = Undefined}

Session(id) == [kind |-> "object", user |-> [kind |-> "object", id |-> id]]

\* what authProvider.getSession settles to
GetSessionOutcomes ==
    {Return(Session("123")), Return(Null),
     Throw(PlainError("session store unavailable"))}

AuthProviders == {Undefined, [kind |-> "object", getSession |-> "function"]}

\* the `~standard` property of a schema
StandardProps ==
    {Undefined,
     [kind |-> "object", version |-> 1, validate |-> "function"],
     [kind |-> "object", version |-> 2, validate |-> "function"],
     [kind |-> "object", version |-> 1, validate |-> "undefined"]}

Schemas == {Undefined} \cup {[kind |-> "object", standard |-> p] : p \in StandardProps}

UUIDKeyLists == {Undefined, Arr(<<"id">>), Arr(<<"id", "org">>)}

\* the field errors an extra validator reports: k business-rule errors
ExtraErrors(k) ==
    [i \in 1..k |-> [field |-> "rule" \o ToString(i), message |-> "Rule violated"]]

\* the handler's extra validator: not supplied, or a function that returns a list
\* of field errors or throws
AdditionalValidators ==
    {Undefined}
    \cup {[kind |-> "function", settles |-> Return(Arr(ExtraErrors(k)))] : k \in 0..MaxExtra}
    \cup {[kind |-> "function", settles |-> Throw(PlainError("rule check failed"))]}

Loggers == {Undefined, [kind |-> "object", error |-> "function"]}

\* createController(handler, config, additionalValidator), and getRoutes(config)
Configs ==
    [requiresAuthentication : BOOLEAN,
     validationSchema : Schemas,
     validateUUIDs : UUIDKeyLists,
     authProvider : AuthProviders,
     additionalValidator : AdditionalValidators,
     routerAuthProvider : AuthProviders,
     logger : Loggers]

\* the configurations served: the extra validator is varied in full under a
\* schema that passes the capability probe, and is absent or reporting under
\* the others
ConfigsServed ==
    {cfg \in Configs :
        (cfg.validationSchema = Undefined \/ cfg.validationSchema.standard = Undefined
         \/ cfg.validationSchema.standard.version # 1
         \/ cfg.validationSchema.standard.validate # "function")
        => cfg.additionalValidator \in
            {Undefined, [kind |-> "function", settles |-> Return(Arr(ExtraErrors(1)))]}}

\* request.json(): the body parsed, or a rejection when it is no JSON
RawBody == [kind |-> "object", username |-> " Bob "]
ParsedBody == [kind |-> "object", username |-> "bob"]
JsonOutcomes == {Return(RawBody), Throw(PlainError("Unexpected token"))}

\* the kinds of path segment: a string key, a number, and the {key} objects of both
SegmentCycle == <<KeySeg("a"), NumSeg(0), ObjSeg(KeySeg("b")), ObjSeg(NumSeg(1))>>

\* the path of len segments that starts at the start-th kind and cycles on
CyclePath(start, len) ==
    Arr([j \in 1..len |-> SegmentCycle[((start + j - 2) % Len(SegmentCycle)) + 1]])

IssueMessages == <<"Required", "Too short", "Invalid email", "Too long">>

\* a list of n issues with paths of len segments, the i-th starting one segment
\* kind after the (i-1)-th, each with its own message
IssueList(n, start, len) ==
    [i \in 1..n |->
        [path |-> CyclePath(start + i - 1, len),
         message |-> Msg(IssueMessages[((i - 1) % Len(IssueMessages)) + 1])]]

\* a list of n issues that carry neither a path nor a message
BareIssueList(n) == [i \in 1..n |-> [path |-> Undefined, message |-> Undefined]]

IssueLists ==
    {IssueList(n, start, len) :
        n \in 0..MaxIssues, start \in 1..Len(SegmentCycle), len \in 0..MaxPath}
    \cup {BareIssueList(n) : n \in 1..MaxIssues}

\* what props.validate(input) settles to: a value (the input or a parsed form of
\* it), issues, neither, or a throw
ValidateOutcomes(input) ==
    {Return([value |-> input, issues |-> Undefined]),
     Return([value |-> ParsedBody, issues |-> Undefined]),
     Return([value |-> Undefined, issues |-> Undefined]),
     Throw(PlainError("validator crashed")),
     Throw(ForbiddenError(NoOverrides))}
    \cup {Return([value |-> Undefined, issues |-> Arr(l)]) : l \in IssueLists}

\* the response user logic builds from the controller it is given
UserResponse(c) ==
    ResponseJson([kind |-> "object", json |-> c.json, user |-> user(c),
                  params |-> c.params], OkCode)

\* an error of user logic that carries data, field errors and an internal cause
UserConflict ==
    ConflictError([message |-> Msg("Username taken"),
                   data |-> [kind |-> "object", username |-> "bob"],
                   fieldErrors |-> Arr(<<[field |-> "username", message |-> "Taken"]>>),
                   internalError |-> PlainError("duplicate key users_username")])

\* what run() does: the error it passes to failWith (or Undefined), and how it
\* settles
RunOutcomes(c) ==
    {[failWith |-> Undefined, settles |-> Return(UserResponse(c))],
     [failWith |-> ForbiddenError(NoOverrides),
      settles |-> Return(toResponse(ForbiddenError(NoOverrides)))],
     [failWith |-> ForbiddenError(NoOverrides), settles |-> Return(UserResponse(c))],
     [failWith |-> Undefined, settles |-> Throw(PlainError("database down"))],
     [failWith |-> Undefined, settles |-> Throw(ForbiddenError(NoOverrides))],
     [failWith |-> Undefined, settles |-> Throw(UserConflict)],
     [failWith |-> UserConflict, settles |-> Return(toResponse(UserConflict))]}

\* logger.error(...) returns or throws
LoggerOutcomes == {Return(Undefined), Throw(PlainError("log sink closed"))}

----------------------------------------------------------------------------
(* router.ts: route discovery (readRoutes) and route-table construction    *)
(* (parseRoutes). Strings are sequences of characters here, so that        *)
(* lower-casing, prefixing and separator collapsing are computed.          *)

\* most files a scan of the routes directory yields
MaxFiles == 3

UpperLetters ==
    <<"A", "B", "C", "D", "E", "F", "G", "H", "I", "J", "K", "L", "M",
      "N", "O", "P", "Q", "R", "S", "T", "U", "V", "W", "X", "Y", "Z">>
LowerLetters ==
    <<"a", "b", "c", "d", "e", "f", "g", "h", "i", "j", "k", "l", "m",
      "n", "o", "p", "q", "r", "s", "t", "u", "v", "w", "x", "y", "z">>

\* the position of ch in letters, or 0
IndexIn(letters, ch) ==
    IF \E i \in DOMAIN letters : letters[i] = ch
    THEN CHOOSE i \in DOMAIN letters : letters[i] = ch
    ELSE 0

\* String.prototype.toLowerCase / toUpperCase
toLowerCase(s) ==
    [i \in DOMAIN s |->
        IF IndexIn(UpperLetters, s[i]) = 0 THEN s[i]
        ELSE LowerLetters[IndexIn(UpperLetters, s[i])]]
toUpperCase(s) ==
    [i \in DOMAIN s |->
        IF IndexIn(LowerLetters, s[i]) = 0 THEN s[i]
        ELSE UpperLetters[IndexIn(LowerLetters, s[i])]]

\* the position of the last path separator of file, or 0
LastSep(file) ==
    IF \E i \in DOMAIN file : file[i] = "/"
    THEN CHOOSE i \in DOMAIN file :
            file[i] = "/" /\ \A j \in DOMAIN file : file[j] = "/" => j <= i
    ELSE 0

\* path.basename(file), path.dirname(file) of a relative path
basename(file) == SubSeq(file, LastSep(file) + 1, Len(file))
dirname(file) ==
    IF LastSep(file) = 0 THEN <<".">> ELSE SubSeq(file, 1, LastSep(file) - 1)

\* name.slice(0, -3)
sliceOffExtension(name) == SubSeq(name, 1, Len(name) - 3)

\* s.replace(/\/{2,}/g, "/")
RECURSIVE collapseSlashes(_)
collapseSlashes(s) ==
    IF Len(s) <= 1 THEN s
    ELSE IF s[1] = "/" /\ s[2] = "/" THEN collapseSlashes(Tail(s))
    ELSE <<s[1]>> \o collapseSlashes(Tail(s))

methods ==
    << <<"g", "e", "t">>, <<"p", "o", "s", "t">>, <<"p", "a", "t", "c", "h">>,
       <<"p", "u", "t">>, <<"d", "e", "l", "e", "t", "e">>, <<"h", "e", "a", "d">>,
       <<"o", "p", "t", "i", "o", "n", "s">> >>
methodSet == {methods[i] : i \in DOMAIN methods}

\* the directory getRoutes is given
routesDirectory == <<"r", "o", "u", "t", "e", "s">>

\* the route path readRoutes gives a scanned file
routePathOf(file, routePrefix) ==
    LET dirPath == dirname(file)
        relative == IF dirPath = <<".">> THEN <<"/">>
                    ELSE <<"/">> \o toLowerCase(dirPath)
    IN  collapseSlashes(routePrefix \o relative)

\* readRoutes(dir, routePrefix) over the files the scan yields, in scan order
RECURSIVE readRoutes(_, _)
readRoutes(scan, routePrefix) ==
    IF scan = <<>> THEN <<>>
    ELSE LET file == Head(scan)
             method == toLowerCase(sliceOffExtension(basename(file)))
         IN  IF method \notin methodSet THEN readRoutes(Tail(scan), routePrefix)
             ELSE <<[path |-> routePathOf(file, routePrefix),
                     handler |-> routesDirectory \o <<"/">> \o file,
                     method |-> method]>>
                  \o readRoutes(Tail(scan), routePrefix)

\* the closure parseRoutes binds to a route: it constructs the class the module
\* at d.handler exports
RouteHandler(d) == [kind |-> "function", Ctor |-> d.handler]

\* `Route controller ${d.path}/${d.method} must default export a class.`
NotAClassMessage(d) ==
    <<"R", "o", "u", "t", "e", " ", "c", "o", "n", "t", "r", "o", "l", "l", "e", "r", " ">>
    \o d.path \o <<"/">> \o d.method
    \o <<" ", "m", "u", "s", "t", " ", "d", "e", "f", "a", "u", "l", "t", " ",
         "e", "x", "p", "o", "r", "t", " ", "a", " ", "c", "l", "a", "s", "s", ".">>

\* `Router ${d.method} ${d.path} is redefined`
RedefinedMessage(d) ==
    <<"R", "o", "u", "t", "e", "r", " ">> \o d.method \o <<" ">> \o d.path
    \o <<" ", "i", "s", " ", "r", "e", "d", "e", "f", "i", "n", "e", "d">>

EmptyTable == [k \in {} |-> Undefined]

\* routes with routes[key][method] = handler
WithRoute(routes, key, method, handler) ==
    LET route == IF key \in DOMAIN routes THEN routes[key] ELSE EmptyTable
    IN  [k \in DOMAIN routes \cup {key} |->
            IF k = key
            THEN [m \in DOMAIN route \cup {method} |->
                    IF m = method THEN handler ELSE route[m]]
            ELSE routes[k]]

\* mutant of parseRoutesStep: a route defined again replaces the one before
parseRoutesStepLastWins(d, mod, routes) ==
    IF mod.default # "function" THEN Throw(PlainError(NotAClassMessage(d)))
    ELSE Return(WithRoute(routes, d.path, toUpperCase(d.method), RouteHandler(d)))

\* one iteration of the loop of parseRoutes: the table with d's route added,
\* or the error thrown
parseRoutesStep(d, mod, routes) ==
    IF mod.default # "function" THEN Throw(PlainError(NotAClassMessage(d)))
    ELSE LET key == d.path
             method == toUpperCase(d.method)
             route == IF key \in DOMAIN routes THEN routes[key] ELSE EmptyTable
         IN  IF method \in DOMAIN route
             THEN Throw(PlainError(RedefinedMessage(d)))
             ELSE Return(WithRoute(routes, key, method, RouteHandler(d)))

\* the loop of parseRoutes from its i-th iteration on
RECURSIVE parseRoutesLoop(_, _, _, _)
parseRoutesLoop(discovered, imports, i, routes) ==
    IF i > Len(discovered) THEN Return(routes)
    ELSE LET step == parseRoutesStep(discovered[i], imports[i], routes)
         IN  IF step.kind = "rejected" THEN step
             ELSE parseRoutesLoop(discovered, imports, i + 1, step.value)

\* parseRoutes(discovered, ...) once every import has resolved
parseRoutes(discovered, imports) == parseRoutesLoop(discovered, imports, 1, EmptyTable)

\* the files a scan of the routes directory may yield: get.ts, get.js,
\* items/get.ts, Items/get.ts, items/get.js, items/POST.js, items/util.ts
ScannedFiles ==
    {<<"g", "e", "t", ".", "t", "s">>,
     <<"g", "e", "t", ".", "j", "s">>,
     <<"i", "t", "e", "m", "s", "/", "g", "e", "t", ".", "t", "s">>,
     <<"I", "t", "e", "m", "s", "/", "g", "e", "t", ".", "t", "s">>,
     <<"i", "t", "e", "m", "s", "/", "g", "e", "t", ".", "j", "s">>,
     <<"i", "t", "e", "m", "s", "/", "P", "O", "S", "T", ".", "j", "s">>,
     <<"i", "t", "e", "m", "s", "/", "u", "t", "i", "l", ".", "t", "s">>}

\* what a scan yields: distinct files, in any order
Scans ==
    UNION {{s \in [1..n -> ScannedFiles] :
                \A i, j \in 1..n : i < j => s[i] # s[j]} : n \in 0..MaxFiles}

\* routePrefix: "" (the default), "/api", "/api/"
RoutePrefixes == {<<>>, <<"/", "a", "p", "i">>, <<"/", "a", "p", "i", "/">>}

\* what a route module exports by default: a class, or something else
ModuleExports == {"function", "object"}

\* how Promise.all(imports) of n modules settles: every module loaded, or a
\* rejection
ImportOutcomes(n) ==
    {Return(mods) : mods \in [1..n -> {[default |-> e] : e \in ModuleExports}]}
    \cup {Throw(PlainError(<<"C", "a", "n", "n", "o", "t", " ", "f", "i", "n", "d",
                             " ", "m", "o", "d", "u", "l", "e">>))}

\* getRoutes(config) about to start on a routes directory
RouterStarting(scan, routePrefix) ==
    [pc |-> "getRoutes", routePrefix |-> routePrefix, scan |-> scan,
     discovered |-> <<>>, imports |-> Undefined, result |-> Undefined]

\* the router whose table holds the route the invocations are made to:
\* routes/items/get.ts under the default prefix
RouterServing ==
    LET scan == << <<"i", "t", "e", "m", "s", "/", "g", "e", "t", ".", "t", "s">> >>
        discovered == readRoutes(scan, <<>>)
    IN  [pc |-> "returned", routePrefix |-> <<>>, scan |-> scan,
         discovered |-> discovered,
         imports |-> Return(<<[default |-> "function"]>>),
         result |-> parseRoutes(discovered, <<[default |-> "function"]>>)]

----------------------------------------------------------------------------
(* The state machine *)

\* the invocations of the route's handler that the server makes
Invocations == {"r1"}

NoCalls ==
    [routerGetSession |-> <<>>,  \* the settled router-level session lookups
     getSession |-> <<>>,        \* the settled controller-level session lookups
     json |-> <<>>,              \* the settled request.json() calls
     validate |-> <<>>,          \* the validator's calls: [arg, settles]
     additionalValidation |-> <<>>,  \* the extra validator's calls: [arg, settles]
     run |-> <<>>,               \* user logic's calls: [saw, failWith, settles]
     logger |-> <<>>]            \* the logger's calls

Init ==
    /\ router = RouterServing
    /\ config \in ConfigsServed
    /\ request \in [Invocations -> RequestsTo(config)]
    /\ pc = [r \in Invocations |-> "handler"]
    /\ ctl = [r \in Invocations |-> Undefined]
    /\ io = [r \in Invocations |-> NoCalls]
    /\ thrown = [r \in Invocations |-> Undefined]
    /\ response = [r \in Invocations |-> Undefined]

\* mutant of Construct: one controller instance serves every invocation
ConstructShared(r, session) ==
    /\ ctl' = [q \in DOMAIN ctl |->
                Controller(request[r], [session |-> session], config)]
    /\ pc' = [pc EXCEPT ![r] = "_validateUUIDs"]

\* `new Ctor(bunReq, context)` followed by instance.invoke()
Construct(r, session) ==
    /\ ctl' = [ctl EXCEPT ![r] = Controller(request[r], [session |-> session], config)]
    /\ pc' = [pc EXCEPT ![r] = "_validateUUIDs"]

\* an exception leaves invoke() and reaches the catch of the route's handler
Raise(r, error) ==
    /\ thrown' = [thrown EXCEPT ![r] = error]
    /\ pc' = [pc EXCEPT ![r] = "catch"]

\* the route's handler starts: it looks the session up when the router has a
\* provider, and constructs the controller at once when it has none
Handler ==
    \E r \in DOMAIN pc :
    /\ pc[r] = "handler"
    /\ IF Truthy(config.routerAuthProvider)
       THEN /\ pc' = [pc EXCEPT ![r] = "handler.getSession"]
            /\ UNCHANGED ctl
       ELSE Construct(r, Undefined)
    /\ UNCHANGED <<router, config, request, io, thrown, response>>

\* the router-level getSession settles
HandlerGetSession ==
    \E r \in DOMAIN pc :
    /\ pc[r] = "handler.getSession"
    /\ \E s \in GetSessionOutcomes :
        /\ io' = [io EXCEPT ![r].routerGetSession = Append(@, s)]
        /\ IF s.kind = "rejected"
           THEN Raise(r, s.error) /\ UNCHANGED ctl
           ELSE Construct(r, s.value) /\ UNCHANGED thrown
    /\ UNCHANGED <<router, config, request, response>>

\* init(): await this._validateUUIDs()
ValidateUUIDs ==
    \E r \in DOMAIN pc :
    /\ pc[r] = "_validateUUIDs"
    /\ ctl' = [ctl EXCEPT ![r] = _validateUUIDs(@)]
    /\ pc' = [pc EXCEPT ![r] = "_checkAuthStatus"]
    /\ UNCHANGED <<router, config, request, io, thrown, response>>

\* mutant of CheckAuthStatus: the session lookup is not awaited
CheckAuthStatusNotAwaited ==
    \E r \in DOMAIN pc :
    /\ pc[r] = "_checkAuthStatus"
    /\ IF ~Truthy(ctl[r].authProvider)
       THEN ctl' = [ctl EXCEPT ![r] = checkAuthStatusNoProvider(@)]
       ELSE UNCHANGED ctl
    /\ pc' = [pc EXCEPT ![r] = "_validateJSONInput"]
    /\ UNCHANGED <<router, config, request, io, thrown, response>>

\* init(): this._checkAuthStatus(), up to its await
CheckAuthStatus ==
    \E r \in DOMAIN pc :
    /\ pc[r] = "_checkAuthStatus"
    /\ IF ~Truthy(ctl[r].authProvider)
       THEN /\ ctl' = [ctl EXCEPT ![r] = checkAuthStatusNoProvider(@)]
            /\ pc' = [pc EXCEPT ![r] = "_validateJSONInput"]
       ELSE /\ pc' = [pc EXCEPT ![r] = "_checkAuthStatus.getSession"]
            /\ UNCHANGED ctl
    /\ UNCHANGED <<router, config, request, io, thrown, response>>

\* the controller-level getSession settles
CheckAuthStatusGetSession ==
    \E r \in DOMAIN pc :
    /\ pc[r] = "_checkAuthStatus.getSession"
    /\ \E s \in GetSessionOutcomes :
        /\ io' = [io EXCEPT ![r].getSession = Append(@, s)]
        /\ IF s.kind = "rejected"
           THEN Raise(r, s.error) /\ UNCHANGED ctl
           ELSE /\ ctl' = [ctl EXCEPT ![r] = checkAuthStatusResolved(@, s.value)]
                /\ pc' = [pc EXCEPT ![r] = "_validateJSONInput"]
                /\ UNCHANGED thrown
    /\ UNCHANGED <<router, config, request, response>>

\* init(): this._validateJSONInput(), up to its await of request.json()
ValidateJSONInput ==
    \E r \in DOMAIN pc :
    /\ pc[r] = "_validateJSONInput"
    /\ pc' = [pc EXCEPT ![r] = IF validateJSONInputSkips(ctl[r])
                               THEN "_additionalValidation"
                               ELSE "_validateJSONInput.json"]
    /\ UNCHANGED <<router, config, request, ctl, io, thrown, response>>

\* request.json() settles; on success parseStandardSchema probes the schema and
\* calls the validator
ValidateJSONInputJson ==
    \E r \in DOMAIN pc :
    /\ pc[r] = "_validateJSONInput.json"
    /\ \E j \in JsonOutcomes :
        /\ io' = [io EXCEPT ![r].json = Append(@, j)]
        /\ IF j.kind = "rejected"
           THEN /\ ctl' = [ctl EXCEPT ![r] = validateJSONInputParseFailed(@)]
                /\ pc' = [pc EXCEPT ![r] = "_additionalValidation"]
           ELSE LET probe == parseStandardSchemaProbe(ctl[r].inputSchema)
                IN  IF probe # Undefined
                    THEN /\ ctl' = [ctl EXCEPT ![r] =
                                        validateJSONInputSettled(@, Throw(probe))]
                         /\ pc' = [pc EXCEPT ![r] = "_additionalValidation"]
                    ELSE /\ pc' = [pc EXCEPT ![r] = "_validateJSONInput.validate"]
                         /\ UNCHANGED ctl
    /\ UNCHANGED <<router, config, request, thrown, response>>

\* props.validate(input) settles; parseStandardSchema returns or throws and
\* _validateJSONInput stores the value or the error
ValidateJSONInputValidate ==
    \E r \in DOMAIN pc :
    /\ pc[r] = "_validateJSONInput.validate"
    /\ LET input == io[r].json[Len(io[r].json)].value
       IN  \E v \in ValidateOutcomes(input) :
            /\ io' = [io EXCEPT ![r].validate = Append(@, [arg |-> input, settles |-> v])]
            /\ ctl' = [ctl EXCEPT ![r] =
                        validateJSONInputSettled(@,
                            IF v.kind = "rejected" THEN v
                            ELSE parseStandardSchemaResult(input, v.value))]
    /\ pc' = [pc EXCEPT ![r] = "_additionalValidation"]
    /\ UNCHANGED <<router, config, request, thrown, response>>

\* additionalValidation(validated) of the class createController returns:
\* additionalValidator?.(validated) ?? []
additionalValidation(validator, validated) ==
    IF validator = Undefined THEN Return(Arr(<<>>))
    ELSE IF validator.settles.kind = "rejected" THEN validator.settles
    ELSE Return(Coalesce(validator.settles.value, Arr(<<>>)))

\* init(): this._additionalValidation(): skipped without a validated body, else
\* the extra validator is called and its field errors are merged
AdditionalValidation ==
    \E r \in DOMAIN pc :
    /\ pc[r] = "_additionalValidation"
    /\ IF additionalValidationSkips(ctl[r])
       THEN /\ pc' = [pc EXCEPT ![r] = "respond"]
            /\ UNCHANGED <<ctl, io, thrown>>
       ELSE LET a == additionalValidation(config.additionalValidator, ctl[r].json)
            IN  /\ io' = [io EXCEPT ![r].additionalValidation =
                            Append(@, [arg |-> ctl[r].json, settles |-> a])]
                /\ IF a.kind = "rejected"
                   THEN Raise(r, a.error) /\ UNCHANGED ctl
                   ELSE /\ ctl' = [ctl EXCEPT ![r] =
                                    additionalValidationSettled(@, a.value)]
                        /\ pc' = [pc EXCEPT ![r] = "respond"]
                        /\ UNCHANGED thrown
    /\ UNCHANGED <<router, config, request, response>>

\* respond(): render the pending error, or call run()
Respond ==
    \E r \in DOMAIN pc :
    /\ pc[r] = "respond"
    /\ IF Truthy(respondPending(ctl[r]))
       THEN /\ response' = [response EXCEPT ![r] = toResponse(respondPending(ctl[r]))]
            /\ pc' = [pc EXCEPT ![r] = "done"]
       ELSE /\ pc' = [pc EXCEPT ![r] = "run"]
            /\ UNCHANGED response
    /\ UNCHANGED <<router, config, request, ctl, io, thrown>>

\* user logic runs and settles; respond() returns its response or the error it set
Run ==
    \E r \in DOMAIN pc :
    /\ pc[r] = "run"
    /\ \E o \in RunOutcomes(ctl[r]) :
        LET c == IF o.failWith = Undefined THEN ctl[r] ELSE failWith(ctl[r], o.failWith)
        IN  /\ io' = [io EXCEPT ![r].run =
                        Append(@, [saw |-> ctl[r], failWith |-> o.failWith,
                                   settles |-> o.settles])]
            /\ ctl' = [ctl EXCEPT ![r] = c]
            /\ IF o.settles.kind = "rejected"
               THEN Raise(r, o.settles.error) /\ UNCHANGED response
               ELSE /\ response' = [response EXCEPT ![r] =
                                        respondAfterRun(c, o.settles.value)]
                    /\ pc' = [pc EXCEPT ![r] = "done"]
                    /\ UNCHANGED thrown
    /\ UNCHANGED <<router, config, request>>

\* whether the catch of the route's handler calls logger.error for e
handlerLogs(e, logger) ==
    IF e.kind = "ResponseError" THEN Truthy(e.internalError) /\ Truthy(logger)
    ELSE Truthy(logger)

\* the response the catch of the route's handler returns for e
handlerCatch(e) ==
    IF e.kind = "ResponseError" THEN toResponse(e)
    ELSE toResponse(InternalServerError(NoOverrides))

\* the catch of the route's handler: log, then answer; a throwing logger lets
\* its exception out of the handler
Catch ==
    \E r \in DOMAIN pc :
    /\ pc[r] = "catch"
    /\ IF handlerLogs(thrown[r], config.logger)
       THEN \E l \in LoggerOutcomes :
            /\ io' = [io EXCEPT ![r].logger = Append(@, l)]
            /\ IF l.kind = "rejected"
               THEN /\ pc' = [pc EXCEPT ![r] = "rejected"]
                    /\ thrown' = [thrown EXCEPT ![r] = l.error]
                    /\ UNCHANGED response
               ELSE /\ response' = [response EXCEPT ![r] = handlerCatch(thrown[r])]
                    /\ pc' = [pc EXCEPT ![r] = "done"]
                    /\ UNCHANGED thrown
       ELSE /\ response' = [response EXCEPT ![r] = handlerCatch(thrown[r])]
            /\ pc' = [pc EXCEPT ![r] = "done"]
            /\ UNCHANGED <<io, thrown>>
    /\ UNCHANGED <<router, config, request, ctl>>

Next ==
    \/ Handler
    \/ HandlerGetSession
    \/ ValidateUUIDs
    \/ CheckAuthStatus
    \/ CheckAuthStatusGetSession
    \/ ValidateJSONInput
    \/ ValidateJSONInputJson
    \/ ValidateJSONInputValidate
    \/ AdditionalValidation
    \/ Respond
    \/ Run
    \/ Catch

Spec == Init /\ [][Next]_vars

----------------------------------------------------------------------------
(* Requests in flight at the same time *)

\* two invocations of the handler of one route, interleaved at their awaits
ConcurrentInvocations == {"r1", "r2"}

\* a handler with every stage configured, behind a router with a session
\* provider and a logger
ConfigsConcurrent ==
    {cfg \in ConfigsServed :
        /\ cfg.requiresAuthentication
        /\ cfg.validationSchema =
             [kind |-> "object",
              standard |-> [kind |-> "object", version |-> 1, validate |-> "function"]]
        /\ cfg.validateUUIDs = Arr(<<"id">>)
        /\ Truthy(cfg.authProvider)
        /\ cfg.additionalValidator =
             [kind |-> "function", settles |-> Return(Arr(ExtraErrors(0)))]
        /\ Truthy(cfg.routerAuthProvider)
        /\ Truthy(cfg.logger)}

\* the request with id as its one parameter
RequestWithId(id) ==
    [params |-> [kind |-> "object", map |-> [EmptyParams.map EXCEPT !["id"] = id]],
     headers |-> Headers]

InitConcurrent ==
    /\ router = RouterServing
    /\ config \in ConfigsConcurrent
    /\ request \in [ConcurrentInvocations ->
                        {RequestWithId(id) : id \in {UUIDv4, UUIDv7, NotAUUID}}]
    /\ pc = [r \in ConcurrentInvocations |-> "handler"]
    /\ ctl = [r \in ConcurrentInvocations |-> Undefined]
    /\ io = [r \in ConcurrentInvocations |-> NoCalls]
    /\ thrown = [r \in ConcurrentInvocations |-> Undefined]
    /\ response = [r \in ConcurrentInvocations |-> Undefined]

SpecConcurrent == InitConcurrent /\ [][Next]_vars

----------------------------------------------------------------------------
(* The construction of the route table *)

\* the configuration of a router that serves no request yet
ConfigUnused ==
    [requiresAuthentication |-> FALSE, validationSchema |-> Undefined,
     validateUUIDs |-> Undefined, authProvider |-> Undefined,
     additionalValidator |-> Undefined, routerAuthProvider |-> Undefined,
     logger |-> Undefined]

InitRoutes ==
    /\ router \in {RouterStarting(scan, routePrefix) :
                        scan \in Scans, routePrefix \in RoutePrefixes}
    /\ config = ConfigUnused
    /\ request = <<>>
    /\ pc = <<>>
    /\ ctl = <<>>
    /\ io = <<>>
    /\ thrown = <<>>
    /\ response = <<>>

\* getRoutes: readRoutes scans the directory; with nothing discovered the empty
\* table is returned, else parseRoutes starts importing the modules
GetRoutes ==
    /\ router.pc = "getRoutes"
    /\ LET discovered == readRoutes(router.scan, router.routePrefix)
       IN  router' =
             IF Len(discovered) = 0
             THEN [router EXCEPT !.discovered = discovered,
                                 !.result = Return(EmptyTable), !.pc = "returned"]
             ELSE [router EXCEPT !.discovered = discovered, !.pc = "parseRoutes"]
    /\ UNCHANGED <<config, request, pc, ctl, io, thrown, response>>

\* parseRoutes: the imports settle; when all have resolved the loop builds the
\* table or throws
ParseRoutes ==
    /\ router.pc = "parseRoutes"
    /\ \E imports \in ImportOutcomes(Len(router.discovered)) :
        LET result == IF imports.kind = "rejected" THEN imports
                      ELSE parseRoutes(router.discovered, imports.value)
        IN  router' = [router EXCEPT
                        !.imports = imports,
                        !.result = result,
                        !.pc = IF result.kind = "rejected" THEN "failed" ELSE "returned"]
    /\ UNCHANGED <<config, request, pc, ctl, io, thrown, response>>

NextRoutes ==
    \/ GetRoutes
    \/ ParseRoutes

SpecRoutes == InitRoutes /\ [][NextRoutes]_vars

----------------------------------------------------------------------------
(* Properties *)

Constructed(r) == ctl[r] # Undefined
Ran(r) == io[r].run # <<>>
Answered(r) == pc[r] = "done" /\ thrown[r] = Undefined

\* the body every rendered ResponseError without data has
ErrorBody(message, fields) == [message |-> message, data |-> Undefined, fields |-> fields]

\* the session the route's handler put into the context it constructed with
ContextSession(r) ==
    IF io[r].routerGetSession = <<>> THEN Undefined ELSE io[r].routerGetSession[1].value

\* C1 (amended): run is invoked exactly when the validation stages left no
\* pending error; a pending error is answered with its rendering and run is
\* not invoked; otherwise the answer is the response run returned, unless run
\* itself set an error with failWith, and then it is that error's rendering.
C1_Dispatch ==
    \A r \in DOMAIN pc :
        /\ Len(io[r].run) <= 1
        /\ pc[r] = "run" => ctl[r].responseError = Undefined
        /\ Ran(r) => io[r].run[1].saw.responseError = Undefined
        /\ Answered(r) =>
            IF Ran(r)
            THEN response[r] =
                    IF io[r].run[1].failWith = Undefined
                    THEN io[r].run[1].settles.value
                    ELSE toResponse(io[r].run[1].failWith)
            ELSE /\ Truthy(ctl[r].responseError)
                 /\ response[r] = toResponse(ctl[r].responseError)

\* C1 as stated: whenever run was invoked, the answer is the response it returned
C1_DispatchAsStated ==
    \A r \in DOMAIN pc :
        /\ Ran(r) => io[r].run[1].saw.responseError = Undefined
        /\ Answered(r) =>
            IF Ran(r) THEN response[r] = io[r].run[1].settles.value
            ELSE /\ Truthy(ctl[r].responseError)
                 /\ response[r] = toResponse(ctl[r].responseError)

\* C1 witness: both branches of dispatch are taken: user logic answered, having
\* set an error with failWith and returned its own response
C1_Witness ==
    \E r \in DOMAIN pc :
        /\ Answered(r) /\ Ran(r)
        /\ io[r].run[1].failWith # Undefined
        /\ io[r].run[1].settles.value.status = OkCode
        /\ response[r].status = ForbiddenCode

\* a declared UUID parameter is missing from the request (or the request has
\* no parameter map), or its value does not match the pattern
UUIDParamFails(r) ==
    /\ DeclaredKeys(config) # {}
    /\ \/ request[r].params = Undefined
       \/ \E k \in DeclaredKeys(config) :
            LET v == request[r].params.map[k]
            IN  v = Undefined \/ ~validateUUID(v)

\* C2 as stated: a request whose declared UUID parameter is missing or
\* malformed is answered 404 without field errors, whatever the handler's
\* authentication and schema configuration.
C2_NotFoundAsStated ==
    \A r \in DOMAIN pc :
        (Answered(r) /\ Constructed(r) /\ UUIDParamFails(r))
        => /\ response[r].status = NotFoundCode
           /\ response[r].body.fields = Undefined

\* C3: with authentication required and no provider on the controller, the
\* answer is 401 "Authentication provider not configured"; the request body is
\* not read, neither validator nor user logic is called, and nothing throws.
C3_NoProvider ==
    \A r \in DOMAIN pc :
        (Constructed(r) /\ ctl[r].requiresAuthentication /\ ~Truthy(ctl[r].authProvider))
        => /\ io[r].getSession = <<>>
           /\ io[r].json = <<>>
           /\ io[r].validate = <<>>
           /\ io[r].additionalValidation = <<>>
           /\ io[r].run = <<>>
           /\ pc[r] \notin {"catch", "rejected", "run"}
           /\ pc[r] = "done" =>
                response[r] =
                    ResponseJson(ErrorBody("Authentication provider not configured",
                                           Undefined), UnauthorizedCode)

\* C3 witness: such a request is answered although its handler declares a schema
\* that passes the probe and a UUID parameter that the request gets wrong
C3_Witness ==
    \E r \in DOMAIN pc :
        /\ pc[r] = "done"
        /\ Constructed(r) /\ ctl[r].requiresAuthentication /\ ~Truthy(ctl[r].authProvider)
        /\ ctl[r].inputSchema # Undefined /\ conformsStandardSchema(ctl[r].inputSchema)
        /\ UUIDParamFails(r)
        /\ response[r].status = UnauthorizedCode

\* the controller-level lookup of r settled with no session
LookupFoundNoSession(r) ==
    /\ io[r].getSession # <<>>
    /\ io[r].getSession[1].kind = "resolved"
    /\ ~Truthy(io[r].getSession[1].value)

\* C4: with authentication required and a provider whose lookup yields no
\* session, the answer is 401, the authentication stage attaches nothing to the
\* controller or to its context, and user logic is not called.
C4_NoSession ==
    \A r \in DOMAIN pc :
        (Constructed(r) /\ ctl[r].requiresAuthentication /\ LookupFoundNoSession(r))
        => /\ ctl[r].session = Undefined
           /\ ctl[r].ctx.session = ContextSession(r)
           /\ io[r].run = <<>>
           /\ pc[r] \notin {"catch", "rejected", "run"}
           /\ pc[r] = "done" =>
                /\ response[r].status = UnauthorizedCode
                /\ response[r].body =
                    ErrorBody("You must be logged in to view this content", Undefined)

\* C4 witness: the lookup yielded null while the router's own lookup had put a
\* session into the context, and the request was answered
C4_Witness ==
    \E r \in DOMAIN pc :
        /\ pc[r] = "done" /\ Constructed(r) /\ ctl[r].requiresAuthentication
        /\ LookupFoundNoSession(r)
        /\ Truthy(ContextSession(r))
        /\ response[r].status = UnauthorizedCode

\* no declared UUID parameter of r's request fails and its handler has no schema
NoOtherStageFails(r) ==
    /\ ~UUIDParamFails(r)
    /\ config.validationSchema = Undefined

\* the session a configured provider returned for r: the controller's own
\* provider's when it has one, else the router's
ProvidedSession(r) ==
    IF Truthy(config.authProvider)
    THEN IF io[r].getSession # <<>> /\ io[r].getSession[1].kind = "resolved"
         THEN io[r].getSession[1].value ELSE Undefined
    ELSE IF Truthy(config.routerAuthProvider) /\ Constructed(r)
         THEN ContextSession(r) ELSE Undefined

\* C5 as stated: authentication required, a provider configured on the
\* controller or only on the router, a session returned and no other stage
\* failing: user logic runs with that session and its user, and its response
\* is the answer.
C5_SessionAsStated ==
    \A r \in DOMAIN pc :
        (/\ pc[r] = "done"
         /\ config.requiresAuthentication
         /\ Truthy(ProvidedSession(r))
         /\ NoOtherStageFails(r))
        => /\ Ran(r)
           /\ io[r].run[1].saw.session = ProvidedSession(r)
           /\ user(io[r].run[1].saw) = ProvidedSession(r).user
           /\ io[r].run[1].settles.kind = "resolved"
                => response[r] = respondAfterRun(ctl[r], io[r].run[1].settles.value)

\* the field a path is reported under: the segments "a", 0, {key: "b"} and
\* {key: 1} are written a, [0], b and [1], with a dot between two segments
ExpectedSegment(seg) ==
    CASE seg = KeySeg("a") -> "a"
      [] seg = NumSeg(0) -> "[0]"
      [] seg = ObjSeg(KeySeg("b")) -> "b"
      [] seg = ObjSeg(NumSeg(1)) -> "[1]"

RECURSIVE Dotted(_)
Dotted(segs) ==
    IF segs = <<>> THEN ""
    ELSE IF Len(segs) = 1 THEN ExpectedSegment(segs[1])
    ELSE Dotted(SubSeq(segs, 1, Len(segs) - 1)) \o "." \o ExpectedSegment(segs[Len(segs)])

ExpectedFieldErrors(issues) ==
    [i \in 1..Len(issues) |->
        [field |-> IF issues[i].path = Undefined THEN "" ELSE Dotted(issues[i].path.items),
         message |-> IF issues[i].message = Undefined THEN "Invalid"
                     ELSE issues[i].message.text]]

\* the validator of r was called and reported issues
ReportedIssues(r) ==
    /\ io[r].validate # <<>>
    /\ io[r].validate[1].settles.kind = "resolved"
    /\ Truthy(io[r].validate[1].settles.value.issues)

IssuesOf(r) == io[r].validate[1].settles.value.issues.items

\* C6: when the validator reports N >= 1 issues in one call, the answer is a 400
\* Validation error with exactly N field errors in the issues' order, the i-th
\* with the dot/bracket join of the i-th issue's path and with its message.
C6_FieldErrors ==
    \A r \in DOMAIN pc :
        (ReportedIssues(r) /\ Len(IssuesOf(r)) >= 1)
        => /\ Len(io[r].validate) = 1
           /\ ctl[r].responseError =
                ResponseError("ValidationError", "Bad Request", ValidationCode, Undefined,
                              Arr(ExpectedFieldErrors(IssuesOf(r))), Undefined)
           /\ pc[r] \notin {"catch", "rejected", "run"}
           /\ pc[r] = "done" =>
                response[r] =
                    ResponseJson(ErrorBody("Bad Request",
                                    JSONstringify(Arr(ExpectedFieldErrors(IssuesOf(r))))),
                                 ValidationCode)

\* C6 witness: two issues were reported, the first under a path with a numeric
\* segment, and the request was answered
C6_Witness ==
    \E r \in DOMAIN pc :
        /\ pc[r] = "done" /\ ReportedIssues(r) /\ Len(IssuesOf(r)) = 2
        /\ IssuesOf(r)[1].path = Arr(<<KeySeg("a"), NumSeg(0)>>)
        /\ Len(response[r].body.fields.json.items) = 2
        /\ response[r].body.fields.json.items[1].field = "a.[0]"

\* the validator of r was called and reported no issues
Validated(r) ==
    /\ io[r].validate # <<>>
    /\ io[r].validate[1].settles.kind = "resolved"
    /\ ~Truthy(io[r].validate[1].settles.value.issues)

\* the extra validator of r, if it was called, returned no field errors
ExtraReportedNone(r) ==
    \/ io[r].additionalValidation = <<>>
    \/ /\ io[r].additionalValidation[1].settles.kind = "resolved"
       /\ io[r].additionalValidation[1].settles.value.items = <<>>

\* C7: a body that passes schema validation with output value v, with an extra
\* validator that reports nothing, reaches user logic with json = v, the
\* validator's output and not the raw parsed body.
C7_RoundTrip ==
    \A r \in DOMAIN pc :
        Validated(r)
        => LET v == io[r].validate[1].settles.value.value
           IN  /\ ctl[r].json = v
               /\ Ran(r) => io[r].run[1].saw.json = v
               /\ (Answered(r) /\ ExtraReportedNone(r)) => Ran(r)

\* C7 witness: user logic ran and answered with a validated body that differs
\* from the raw body the validator was given
C7_Witness ==
    \E r \in DOMAIN pc :
        /\ Answered(r) /\ Validated(r) /\ Ran(r)
        /\ io[r].validate[1].arg = RawBody
        /\ io[r].run[1].saw.json = ParsedBody
        /\ response[r].status = OkCode

\* the field errors the handler's extra validator reports
ExtraFieldErrors ==
    IF config.additionalValidator # Undefined
       /\ config.additionalValidator.settles.kind = "resolved"
    THEN config.additionalValidator.settles.value.items
    ELSE <<>>

\* C8 as stated: when the body fails schema validation with issues and the
\* handler's extra validator reports field errors too, the one 400 response
\* carries the field errors of both layers, the schema's first.
C8_BothLayersAsStated ==
    \A r \in DOMAIN pc :
        (pc[r] = "done" /\ ReportedIssues(r) /\ Len(IssuesOf(r)) >= 1
         /\ Len(ExtraFieldErrors) >= 1)
        => /\ response[r].status = ValidationCode
           /\ response[r].body.fields =
                JSONstringify(Arr(ExpectedFieldErrors(IssuesOf(r)) \o ExtraFieldErrors))

\* the extra validator of r was called and returned its field errors
ExtraReturned(r) ==
    /\ io[r].additionalValidation # <<>>
    /\ io[r].additionalValidation[1].settles.kind = "resolved"

\* once the extra validator has reported K >= 1 field errors an error is
\* pending and user logic is not called
C9_NoRunAfterExtraErrors ==
    \A r \in DOMAIN pc :
        (ExtraReturned(r) /\ Len(io[r].additionalValidation[1].settles.value.items) >= 1)
        => /\ Truthy(ctl[r].responseError)
           /\ io[r].run = <<>>
           /\ pc[r] # "run"

\* the step in which the extra validator returns K field errors: with K = 0
\* the pending error is unchanged; with K >= 1 and nothing pending a new 400
\* Validation error holds exactly the K; with K >= 1 and an error pending with
\* field errors F it is the same error with F followed by the K
C9_ExtraStep ==
    \A r \in DOMAIN pc :
        (io[r].additionalValidation = <<>> /\ ExtraReturned(r)')
        => LET K == io'[r].additionalValidation[1].settles.value.items
               pending == ctl[r].responseError
               after == ctl'[r].responseError
           IN  IF K = <<>> THEN after = pending
               ELSE IF pending = Undefined
               THEN after = ResponseError("ValidationError", "Bad Request", ValidationCode,
                                          Undefined, Arr(K), Undefined)
               ELSE after = [pending EXCEPT !.fieldErrors =
                                Arr(Coalesce(pending.fieldErrors, Arr(<<>>)).items \o K)]

\* C9: extra validation accumulates and never discards: the field errors the
\* extra validator returns are appended to the pending error's, or held by a
\* new 400 Validation error when none is pending, and then user logic is not
\* called; when it returns none the pending error is unchanged.
C9_ExtraAccumulates == [] C9_NoRunAfterExtraErrors /\ [][C9_ExtraStep]_vars

\* C9 witness: the extra validator returned two field errors and the request
\* was answered 400 with exactly these two
C9_Witness ==
    \E r \in DOMAIN pc :
        /\ pc[r] = "done" /\ ExtraReturned(r)
        /\ io[r].additionalValidation[1].settles.value.items = ExtraErrors(2)
        /\ response[r] =
            ResponseJson(ErrorBody("Bad Request", JSONstringify(Arr(ExtraErrors(2)))),
                         ValidationCode)

\* request.json() of r rejected
JsonParseFailed(r) == io[r].json # <<>> /\ io[r].json[1].kind = "rejected"

\* C10: when the body is no JSON the pending error is a 400 Validation error
\* "Invalid JSON body provided" without field errors; neither validator is
\* called, the validated body stays unset and user logic does not run.
C10_InvalidJson ==
    \A r \in DOMAIN pc :
        JsonParseFailed(r)
        => /\ ctl[r].responseError =
                ResponseError("ValidationError", "Invalid JSON body provided",
                              ValidationCode, Undefined, Undefined, Undefined)
           /\ io[r].validate = <<>>
           /\ io[r].additionalValidation = <<>>
           /\ ctl[r].json = Undefined
           /\ io[r].run = <<>>
           /\ pc[r] \notin {"catch", "rejected", "run"}
           /\ pc[r] = "done" =>
                response[r] =
                    ResponseJson(ErrorBody("Invalid JSON body provided", Undefined),
                                 ValidationCode)

\* C10 witness: a request whose body is no JSON was answered 400 although the
\* handler has an extra validator that reports errors
C10_Witness ==
    \E r \in DOMAIN pc :
        /\ pc[r] = "done" /\ JsonParseFailed(r)
        /\ Len(ExtraFieldErrors) >= 1
        /\ response[r].status = ValidationCode

\* the invocation of the route's handler has ended: it returned or it threw
Finished(r) == pc[r] \in {"done", "rejected"}

\* the exception that reached the catch of r's handler, or left the handler
Raised(r) == thrown[r] # Undefined

\* C11 (as stated): when an invocation has ended with an error raised, it has
\* an answer: for an error that is no ResponseError, status 500 with the
\* generic message "Internal Server Error", no data and no fields; for a
\* ResponseError, its own status code and rendering (its message, never its
\* internalError).
C11_OutermostAsStated ==
    \A r \in DOMAIN pc :
        (Finished(r) /\ Raised(r))
        => /\ response[r] # Undefined
           /\ IF thrown[r].kind = "ResponseError"
              THEN /\ response[r].status = thrown[r].responseCode
                   /\ response[r].body.message = thrown[r].message
                   /\ DOMAIN response[r].body = {"message", "data", "fields"}
              ELSE response[r] =
                     ResponseJson(ErrorBody("Internal Server Error", Undefined),
                                  InternalServerErrorCode)

\* C12 (as stated): no invocation of the route's handler lets an exception out
\* to the server, and one that has ended has a Response, whichever collaborator
\* failed (the session lookups, body parsing, the validators, user logic or the
\* logger).
C12_AlwaysRespondsAsStated ==
    \A r \in DOMAIN pc :
        /\ pc[r] # "rejected"
        /\ pc[r] = "done" => (response[r] # Undefined /\ response[r].kind = "Response")

\* the handler declares a schema that lacks the adapter property, or whose
\* adapter reports another version than 1 or has no validate function
NonconformingSchema ==
    /\ config.validationSchema # Undefined
    /\ \/ config.validationSchema.standard = Undefined
       \/ config.validationSchema.standard.version # 1
       \/ config.validationSchema.standard.validate # "function"

\* body validation of r ran and request.json() gave it the parsed body
BodyParsed(r) == io[r].json # <<>> /\ io[r].json[1].kind = "resolved"

\* C13 (as stated): when the declared schema is nonconforming, a request that
\* reaches body validation is answered 400 with the message "Schema does not
\* implement the expected adapter contract" and no field errors; the validator
\* is never invoked and user logic does not run.
C13_NonconformingAsStated ==
    \A r \in DOMAIN pc :
        (NonconformingSchema /\ io[r].json # <<>> /\ pc[r] = "done")
        => /\ response[r] =
                ResponseJson(
                    ErrorBody("Schema does not implement the expected adapter contract",
                              Undefined),
                    ValidationCode)
           /\ io[r].validate = <<>>
           /\ ~Ran(r)

\* C13 (amended): when the declared schema is nonconforming and the body of a
\* request that reaches body validation parses as JSON, the pending error is a
\* 400 Validation error "Schema does not implement StandardSchemaV1" without
\* field errors; neither validator is invoked, no validated body is stored,
\* user logic does not run and the answer is that error's rendering.
C13_Nonconforming ==
    \A r \in DOMAIN pc :
        (NonconformingSchema /\ BodyParsed(r))
        => /\ ctl[r].responseError # Undefined
           /\ ctl[r].responseError.name = "ValidationError"
           /\ ctl[r].responseError.responseCode = ValidationCode
           /\ ctl[r].responseError.message = "Schema does not implement StandardSchemaV1"
           /\ ctl[r].responseError.fieldErrors = Undefined
           /\ ctl[r].json = Undefined
           /\ io[r].validate = <<>>
           /\ io[r].additionalValidation = <<>>
           /\ ~Ran(r)
           /\ pc[r] = "done"
              => response[r] =
                   ResponseJson(ErrorBody("Schema does not implement StandardSchemaV1",
                                          Undefined),
                                ValidationCode)

C13_Witness ==
    \E r \in DOMAIN pc :
        /\ NonconformingSchema
        /\ config.validationSchema.standard # Undefined
        /\ config.validationSchema.standard.version # 1
        /\ config.additionalValidator # Undefined
        /\ BodyParsed(r)
        /\ pc[r] = "done"
        /\ response[r].status = ValidationCode

\* the ResponseError whose rendering answers r, if r is answered with one: the
\* one raised to the handler's catch, else the one user logic passed to
\* failWith, else the one the validation stages left pending
RenderedError(r) ==
    IF Raised(r) THEN thrown[r]
    ELSE IF Ran(r) THEN io[r].run[1].failWith
    ELSE ctl[r].responseError

\* resp is the rendering of the ResponseError e
IsRenderingOf(resp, e) ==
    /\ resp.kind = "Response"
    /\ resp.status = e.responseCode
    /\ DOMAIN resp.body = {"message", "data", "fields"}
    /\ resp.body.message = e.message
    /\ (resp.body.data # Undefined) <=> (e.data # Undefined)
    /\ e.data # Undefined
       => (resp.body.data.kind = "string" /\ resp.body.data.json = e.data)
    /\ (resp.body.fields # Undefined) <=> (e.fieldErrors # Undefined)
    /\ e.fieldErrors # Undefined
       => (resp.body.fields.kind = "string" /\ resp.body.fields.json = e.fieldErrors)

Contains(s, sub) ==
    \E i \in 0..(Len(s) - Len(sub)) : SubSeq(s, i + 1, i + Len(sub)) = sub

\* the i-th and the j-th discovered file map to the same path and method
Conflicting(i, j) ==
    /\ i < j
    /\ router.discovered[i].path = router.discovered[j].path
    /\ router.discovered[i].method = router.discovered[j].method

HasConflict == \E i, j \in DOMAIN router.discovered : Conflicting(i, j)

\* the scan yielded two method files of one directory that differ in their
\* extension, or in the case of the directory's name, only
ScannedAlike ==
    \E i, j \in DOMAIN router.scan :
        /\ i # j
        /\ \/ /\ router.scan[i] = <<"g", "e", "t", ".", "t", "s">>
              /\ router.scan[j] = <<"g", "e", "t", ".", "j", "s">>
           \/ /\ router.scan[i] = <<"i", "t", "e", "m", "s", "/", "g", "e", "t", ".", "t", "s">>
              /\ router.scan[j] = <<"I", "t", "e", "m", "s", "/", "g", "e", "t", ".", "t", "s">>

\* the file of the routes directory that the discovered entry d was made from
FileOf(d) == SubSeq(d.handler, Len(routesDirectory) + 2, Len(d.handler))

RoutesDone == router.pc \in {"returned", "failed"}

\* every module was loaded and exports a class
AllClasses ==
    /\ router.imports # Undefined
    /\ router.imports.kind = "resolved"
    /\ \A i \in DOMAIN router.imports.value : router.imports.value[i].default = "function"

\* C15 (as stated): when two discovered files map to the same (path, method)
\* pair, construction fails and returns no table, and the error names both
\* conflicting files.
C15_DuplicateAsStated ==
    (RoutesDone /\ HasConflict)
    => /\ router.pc = "failed"
       /\ router.result.kind = "rejected"
       /\ \E i, j \in DOMAIN router.discovered :
            /\ Conflicting(i, j)
            /\ Contains(router.result.error.message, FileOf(router.discovered[i]))
            /\ Contains(router.result.error.message, FileOf(router.discovered[j]))

\* C15 (amended): when two discovered files map to the same (path, method)
\* pair, construction fails with an error and returns no table; when every
\* module exports a class the error names the method and the path that are
\* defined twice (and neither file). Otherwise the table returned binds every
\* discovered (path, method) pair to the handler of its one file, and holds
\* nothing else.
C15_RouteTable ==
    RoutesDone
    => /\ (HasConflict \/ ScannedAlike)
          => (router.pc = "failed" /\ router.result.kind = "rejected")
       /\ (HasConflict /\ AllClasses)
          => \E i, j \in DOMAIN router.discovered :
                /\ Conflicting(i, j)
                /\ Contains(router.result.error.message, router.discovered[j].method)
                /\ Contains(router.result.error.message, router.discovered[j].path)
                /\ Contains(router.result.error.message,
                            <<"r", "e", "d", "e", "f", "i", "n", "e", "d">>)
                /\ ~Contains(router.result.error.message, FileOf(router.discovered[i]))
                /\ ~Contains(router.result.error.message, FileOf(router.discovered[j]))
       /\ router.pc = "returned"
          => /\ ~HasConflict
             /\ router.result.kind = "resolved"
             /\ \A i \in DOMAIN router.discovered :
                  LET d == router.discovered[i]
                  IN  /\ d.path \in DOMAIN router.result.value
                      /\ toUpperCase(d.method) \in DOMAIN router.result.value[d.path]
                      /\ router.result.value[d.path][toUpperCase(d.method)].Ctor = d.handler
             /\ \A k \in DOMAIN router.result.value :
                  \A m \in DOMAIN router.result.value[k] :
                      Cardinality({i \in DOMAIN router.discovered :
                                      /\ router.discovered[i].path = k
                                      /\ toUpperCase(router.discovered[i].method) = m}) = 1

C15_Witness ==
    /\ router.pc = "failed"
    /\ AllClasses
    /\ router.routePrefix = <<"/", "a", "p", "i", "/">>
    /\ \E i, j \in DOMAIN router.discovered :
        /\ Conflicting(i, j)
        /\ router.discovered[i].handler # router.discovered[j].handler
        /\ toLowerCase(router.discovered[i].handler) = toLowerCase(router.discovered[j].handler)
        /\ router.discovered[i].path = <<"/", "a", "p", "i", "/", "i", "t", "e", "m", "s">>

\* a validation stage of r has left a ResponseError pending
PendingError(r) == Constructed(r) /\ ctl[r].responseError # Undefined

\* r stands in the validation stages that follow ParamValidation
InLaterStages(r) ==
    pc[r] \in {"_checkAuthStatus", "_validateJSONInput", "_additionalValidation"}

\* r waits for a collaborator a validation stage has invoked
AwaitsCollaborator(r) ==
    pc[r] \in {"_checkAuthStatus.getSession", "_validateJSONInput.json",
               "_validateJSONInput.validate"}

\* later is the error earlier, with field errors appended at most
SameErrorAppended(earlier, later) ==
    /\ later # Undefined
    /\ later.name = earlier.name
    /\ later.message = earlier.message
    /\ later.responseCode = earlier.responseCode
    /\ earlier.fieldErrors # Undefined
       => /\ later.fieldErrors # Undefined
          /\ Len(later.fieldErrors.items) >= Len(earlier.fieldErrors.items)
          /\ SubSeq(later.fieldErrors.items, 1, Len(earlier.fieldErrors.items))
                = earlier.fieldErrors.items

\* C16 (as stated): once a stage has set a pending ResponseError, no later
\* validation stage invokes its collaborator (getSession, body parsing, the
\* schema validator, the extra validator) and none replaces the pending error:
\* a step of a later stage leaves the error as it is, up to field errors
\* appended.
C16_ShortCircuitAsStated ==
    [][\A r \in DOMAIN pc :
        (PendingError(r) /\ InLaterStages(r))
        => /\ ~AwaitsCollaborator(r)'
           /\ io'[r] = io[r]
           /\ SameErrorAppended(ctl[r].responseError, ctl'[r].responseError)]_vars

\* the positions of an invocation in the order the source runs through them
Positions ==
    <<"handler", "handler.getSession", "_validateUUIDs", "_checkAuthStatus",
      "_checkAuthStatus.getSession", "_validateJSONInput", "_validateJSONInput.json",
      "_validateJSONInput.validate", "_additionalValidation", "respond", "run",
      "catch", "done", "rejected">>

PositionOf(p) == CHOOSE i \in DOMAIN Positions : Positions[i] = p

\* the stage a position belongs to: 1 ParamValidation, 2 Authentication,
\* 3 BodyValidation, 4 ExtraValidation, 5 Dispatch; 0 before init() and 6
\* after the invocation
StageOf(p) ==
    CASE p \in {"handler", "handler.getSession"} -> 0
      [] p = "_validateUUIDs" -> 1
      [] p \in {"_checkAuthStatus", "_checkAuthStatus.getSession"} -> 2
      [] p \in {"_validateJSONInput", "_validateJSONInput.json",
                "_validateJSONInput.validate"} -> 3
      [] p = "_additionalValidation" -> 4
      [] p \in {"respond", "run"} -> 5
      [] OTHER -> 6

\* the position a stage starts at
StageEntry ==
    <<"_validateUUIDs", "_checkAuthStatus", "_validateJSONInput",
      "_additionalValidation", "respond">>

\* a step of r goes on within its stage, or enters the next stage at its start,
\* or leaves the pipeline (an exception reaches the handler's catch, or the
\* response is delivered); it never goes back
C17_Step ==
    \A r \in DOMAIN pc :
        pc'[r] # pc[r]
        => /\ PositionOf(pc'[r]) > PositionOf(pc[r])
           /\ \/ StageOf(pc'[r]) = StageOf(pc[r])
              \/ /\ StageOf(pc'[r]) = StageOf(pc[r]) + 1
                 /\ StageOf(pc'[r]) <= 5
                 /\ pc'[r] = StageEntry[StageOf(pc'[r])]
              \/ /\ pc'[r] = "catch"
                 /\ pc[r] \in {"handler.getSession", "_checkAuthStatus.getSession",
                               "_additionalValidation", "run"}
              \/ pc'[r] = "done" /\ pc[r] \in {"respond", "run"}

\* what a stage awaited has settled before the next stage's collaborator is
\* called, and no collaborator is called twice
C17_Completed ==
    \A r \in DOMAIN pc :
        /\ StageOf(pc[r]) \in 2..5 => (Constructed(r) /\ ctl[r].params # Undefined)
        /\ (StageOf(pc[r]) \in 3..5 /\ Truthy(config.authProvider))
           => (Len(io[r].getSession) = 1 /\ io[r].getSession[1].kind = "resolved")
        /\ StageOf(pc[r]) \in 0..2 => io[r].json = <<>>
        /\ StageOf(pc[r]) \in 0..3
           => (io[r].additionalValidation = <<>> /\ io[r].run = <<>>)
        /\ StageOf(pc[r]) = 4 => io[r].run = <<>>
        /\ io[r].validate # <<>>
           => (io[r].json # <<>> /\ io[r].json[1].kind = "resolved")
        /\ \A f \in DOMAIN io[r] : Len(io[r][f]) <= 1

\* C17: per request the stages run at most once each, in the order
\* ParamValidation, Authentication, BodyValidation, ExtraValidation, Dispatch;
\* a stage starts only when the one before it, with what it awaited, has
\* completed, and no await lets a stage be skipped, repeated or reordered.
C17_StageOrder == []C17_Completed /\ [][C17_Step]_vars

C17_Witness ==
    \E r \in DOMAIN pc :
        /\ pc[r] = "done"
        /\ Len(io[r].routerGetSession) = 1
        /\ Len(io[r].getSession) = 1
        /\ Len(io[r].json) = 1
        /\ Len(io[r].validate) = 1
        /\ Len(io[r].additionalValidation) = 1
        /\ Len(io[r].run) = 1

\* what r holds comes from its own request and from what its own collaborators
\* answered: the controller was made for r's request and its context holds the
\* session one of r's lookups gave; the validated parameters are r's; the session is
\* the one r's lookup resolved to; the validated body is the value r's
\* validator returned; and a response of user logic was built from r's
\* controller
C18_OwnState ==
    \A r \in DOMAIN pc :
        /\ Constructed(r)
           => /\ ctl[r].request = request[r]
              /\ \/ ctl[r].ctx.session = ContextSession(r)
                 \/ /\ io[r].getSession # <<>>
                    /\ io[r].getSession[1].kind = "resolved"
                    /\ ctl[r].ctx.session = io[r].getSession[1].value
              /\ ctl[r].params # Undefined
                 => \A k \in ParamKeys :
                        ctl[r].params.map[k] \in {Undefined, request[r].params.map[k]}
              /\ ctl[r].session # Undefined
                 => /\ io[r].getSession # <<>>
                    /\ io[r].getSession[1].kind = "resolved"
                    /\ ctl[r].session = io[r].getSession[1].value
              /\ ctl[r].json # Undefined
                 => /\ Validated(r)
                    /\ ctl[r].json = io[r].validate[1].settles.value.value
        /\ Ran(r) => io[r].run[1].saw.request = request[r]
        /\ (pc[r] = "done" /\ response[r].status = OkCode)
           => response[r] = UserResponse(io[r].run[1].saw)
        /\ (pc[r] = "done" /\ response[r].status = NotFoundCode)
           => request[r].params.map["id"] \in {UUIDv7, NotAUUID}

\* a step leaves every invocation that does not take it as it is, and leaves
\* the route table and the configuration as they are
C18_Frame ==
    /\ router' = router
    /\ config' = config
    /\ \A r \in DOMAIN pc :
        pc'[r] = pc[r]
        => /\ request'[r] = request[r]
           /\ ctl'[r] = ctl[r]
           /\ io'[r] = io[r]
           /\ thrown'[r] = thrown[r]
           /\ response'[r] = response[r]

\* C18: under any interleaving of two requests in flight each has its own
\* controller and context; its validated parameters, session, validated body,
\* pending error and response depend on its own inputs and its own
\* collaborators' results only, and serving does not modify the route table.
C18_Isolation == []C18_OwnState /\ [][C18_Frame]_vars

\* both requests are in flight in the middle of their stages, and end with
\* different answers
C18_Witness ==
    /\ pc["r1"] = "done"
    /\ pc["r2"] = "done"
    /\ request["r1"] # request["r2"]
    /\ response["r1"].status = OkCode
    /\ response["r2"].status = NotFoundCode
    /\ ctl["r1"].session # Undefined
    /\ ctl["r1"].json # Undefined
    /\ ctl["r2"].json = Undefined
    /\ io["r2"].json = <<>>

\* r has left the validation stages
PastValidation(r) == StageOf(pc[r]) >= 5

\* the value r's schema validator reported success with
ValidatedValue(r) == io[r].validate[1].settles.value.value

\* C19 (as stated): for every request whose handler declares a schema and
\* whose body passed schema validation, whatever value the validator returned,
\* the extra validator has been invoked exactly once with that value when the
\* validation stages are left (so before user logic); it is never invoked
\* without a schema or a passed body validation.
C19_ExtraInvokedAsStated ==
    \A r \in DOMAIN pc :
        /\ (PastValidation(r) /\ config.validationSchema # Undefined /\ Validated(r))
           => /\ Len(io[r].additionalValidation) = 1
              /\ io[r].additionalValidation[1].arg = ValidatedValue(r)
        /\ io[r].additionalValidation # <<>>
           => (config.validationSchema # Undefined /\ Validated(r))

\* C19 (amended): for every request whose handler declares a schema and whose
\* body passed schema validation with a validated value other than undefined,
\* the extra validator has been invoked exactly once with that value when the
\* validation stages are left (so before user logic); it is never invoked
\* without a schema, without a passed body validation, or when the validator
\* reported success with no value.
C19_ExtraInvoked ==
    \A r \in DOMAIN pc :
        /\ (PastValidation(r) /\ config.validationSchema # Undefined /\ Validated(r)
            /\ ValidatedValue(r) # Undefined)
           => /\ Len(io[r].additionalValidation) = 1
              /\ io[r].additionalValidation[1].arg = ValidatedValue(r)
        /\ io[r].additionalValidation # <<>>
           => /\ config.validationSchema # Undefined
              /\ Validated(r)
              /\ ValidatedValue(r) # Undefined
              /\ Len(io[r].additionalValidation) = 1
              /\ io[r].additionalValidation[1].arg = ValidatedValue(r)
              /\ Ran(r) => io[r].run[1].saw.json = io[r].additionalValidation[1].arg
        /\ pc[r] \in {"handler", "handler.getSession", "_validateUUIDs", "_checkAuthStatus",
                      "_checkAuthStatus.getSession", "_validateJSONInput",
                      "_validateJSONInput.json", "_validateJSONInput.validate",
                      "_additionalValidation"}
           => (io[r].additionalValidation = <<>> /\ ~Ran(r))

C19_Witness ==
    \E r \in DOMAIN pc :
        /\ pc[r] = "done"
        /\ Ran(r)
        /\ config.additionalValidator # Undefined
        /\ Len(io[r].additionalValidation) = 1
        /\ io[r].additionalValidation[1].arg = ParsedBody
        /\ io[r].validate[1].arg = RawBody

\* C20: once ParamValidation has run, the controller's params map is either
\* empty, or exactly the declared keys, each mapped to its request value and
\* each a valid UUID; it is the latter when every declared key validated; a
\* partially validated map, or one with an undeclared key, is seen by no later
\* stage and by no user logic.
C20_ParamsAllOrNothing ==
    \A r \in DOMAIN pc :
        /\ StageOf(pc[r]) \in 2..5 => (Constructed(r) /\ ctl[r].params # Undefined)
        /\ (Constructed(r) /\ ctl[r].params # Undefined)
           => /\ \/ ctl[r].params = EmptyParams
                 \/ /\ request[r].params # Undefined
                    /\ \A k \in ParamKeys :
                        IF k \in DeclaredKeys(config)
                        THEN /\ ctl[r].params.map[k] = request[r].params.map[k]
                             /\ ctl[r].params.map[k] # Undefined
                             /\ validateUUID(ctl[r].params.map[k])
                        ELSE ctl[r].params.map[k] = Undefined
              /\ (request[r].params # Undefined /\ ~UUIDParamFails(r))
                 => \A k \in DeclaredKeys(config) :
                        ctl[r].params.map[k] = request[r].params.map[k]
        /\ Ran(r) => io[r].run[1].saw.params = ctl[r].params

\* the first declared key validated, the second did not, and the map is empty
C20_Witness ==
    \E r \in DOMAIN pc :
        /\ pc[r] = "done"
        /\ Constructed(r)
        /\ DeclaredKeys(config) = {"id", "org"}
        /\ request[r].params # Undefined
        /\ request[r].params.map["id"] = UUIDv4
        /\ request[r].params.map["org"] = NotAUUID
        /\ ctl[r].params = EmptyParams
        /\ ctl[r].responseError # Undefined

\* the handler does not require authentication
OptionalAuth == ~config.requiresAuthentication

\* r's controller-level session lookup has resolved
LookupResolved(r) == io[r].getSession # <<>> /\ io[r].getSession[1].kind = "resolved"

\* a step of the authentication stage of a handler with optional
\* authentication leaves the pending error as it is; without a provider it
\* leaves the controller as it is; when the lookup resolves, its result is
\* attached to the context and to the controller's session
C21_AuthStep ==
    \A r \in DOMAIN pc :
        (OptionalAuth /\ StageOf(pc[r]) = 2 /\ pc'[r] # pc[r])
        => /\ ctl'[r].responseError = ctl[r].responseError
           /\ (pc[r] = "_checkAuthStatus" /\ ~Truthy(config.authProvider))
              => (ctl'[r] = ctl[r] /\ pc'[r] = "_validateJSONInput")
           /\ (pc[r] = "_checkAuthStatus.getSession" /\ LookupResolved(r)')
              => /\ ctl'[r].ctx.session = io'[r].getSession[1].value
                 /\ ctl'[r].session = io'[r].getSession[1].value
                 /\ pc'[r] = "_validateJSONInput"

\* past the authentication stage of a handler with optional authentication no
\* Unauthorized error is pending, and the sessions are the lookup's result
\* (with a provider) or as constructed (without one)
C21_AfterAuth ==
    \A r \in DOMAIN pc :
        (OptionalAuth /\ Constructed(r) /\ StageOf(pc[r]) \in 3..5)
        => /\ ctl[r].responseError # Undefined
              => ctl[r].responseError.name # "UnauthorizedError"
           /\ IF Truthy(config.authProvider)
              THEN /\ LookupResolved(r)
                   /\ ctl[r].ctx.session = io[r].getSession[1].value
                   /\ ctl[r].session = io[r].getSession[1].value
              ELSE /\ ctl[r].ctx.session = ContextSession(r)
                   /\ ctl[r].session = Undefined

\* C21: when requiresAuthentication is false the authentication stage sets no
\* pending error, with or without a provider and whatever the lookup returns;
\* with a provider the lookup's result (a session or null) is attached to the
\* context and to the controller's session; without one the context's session
\* is left unchanged.
C21_OptionalAuth == []C21_AfterAuth /\ [][C21_AuthStep]_vars

C21_Witness ==
    \E r \in DOMAIN pc :
        /\ OptionalAuth
        /\ pc[r] = "done"
        /\ Ran(r)
        /\ LookupResolved(r)
        /\ io[r].getSession[1].value = Null
        /\ ctl[r].session = Null
        /\ ctl[r].ctx.session = Null
        /\ ContextSession(r) # Null
        /\ response[r].status = OkCode

\* r's schema validator resolved with neither a value nor issues
ValidatedNeither(r) ==
    /\ io[r].validate # <<>>
    /\ io[r].validate[1].settles.kind = "resolved"
    /\ io[r].validate[1].settles.value.value = Undefined
    /\ io[r].validate[1].settles.value.issues = Undefined

\* C22 (as stated): when the validator's outcome carries neither a value nor
\* issues, user logic is not run and the request is answered with an error.
C22_NeitherFailsAsStated ==
    \A r \in DOMAIN pc :
        ValidatedNeither(r)
        => /\ ~Ran(r)
           /\ pc[r] = "done"
              => (response[r].kind = "Response" /\ response[r].status >= ValidationCode)

\* the validator of r threw, or rejected with, an error that is no ResponseError
ValidatorThrew(r) ==
    /\ io[r].validate # <<>>
    /\ io[r].validate[1].settles.kind = "rejected"
    /\ io[r].validate[1].settles.error.kind = "Error"

\* C23: when the schema validator's validate call throws or rejects with an
\* error that is no ResponseError, the pending error is a 400 Validation error
\* "Invalid input" without field errors (no 500), the validated body stays
\* unset, and neither the extra validator nor user logic runs.
C23_ValidatorThrows ==
    \A r \in DOMAIN pc :
        ValidatorThrew(r)
        => /\ ctl[r].responseError # Undefined
           /\ ctl[r].responseError.name = "ValidationError"
           /\ ctl[r].responseError.responseCode = ValidationCode
           /\ ctl[r].responseError.message = "Invalid input"
           /\ ctl[r].responseError.fieldErrors = Undefined
           /\ ctl[r].json = Undefined
           /\ io[r].additionalValidation = <<>>
           /\ ~Ran(r)
           /\ ~Raised(r)
           /\ pc[r] = "done"
              => response[r] = ResponseJson(ErrorBody("Invalid input", Undefined),
                                            ValidationCode)

C23_Witness ==
    \E r \in DOMAIN pc :
        /\ ValidatorThrew(r)
        /\ config.additionalValidator # Undefined
        /\ pc[r] = "done"
        /\ response[r].status = ValidationCode
        /\ response[r].body.message = "Invalid input"

====
